---- MODULE Spec2Model ----
(***************************************************************************)
(* Chess agent of the FIDE-Google Efficient Chess AI Challenge repository: *)
(* the evaluator, the alpha-beta search (get_best_move.minimax) and the    *)
(* iterative-deepening loop of agent(), in the two variants of the         *)
(* repository: src/main.py (python-chess, push/pop on one board) and       *)
(* src/chessnut_submission.py (Chessnut, a fresh Game per child).          *)
(*                                                                         *)
(* The rules engine is an external library.  It is modelled as a finite    *)
(* game graph: a position is a square index with a side to move, every     *)
(* square has a number of legal moves, a check flag and a material sum.    *)
(* These attributes are the inputs of the program and are drawn in Init.   *)
(***************************************************************************)
EXTENDS Integers, Sequences, FiniteSets, TLC

VARIABLES variant, rules, fen, reject, board, depth, best_move, elapsed,
          pc, outcome, trace, hist

vars == <<variant, rules, fen, reject, board, depth, best_move, elapsed,
          pc, outcome, trace, hist>>

(* ------------------------------ bounds --------------------------------- *)
\* number of squares (positions up to the side to move) of the game graph
NumSq == 4
\* largest number of legal moves of a position
MaxMoves == 2
\* depths 1..MaxSearchDepth are tried when get_best_move is applied alone
MaxSearchDepth == 3
\* the clock runs from 0 to MaxElapsed tenths of a second
MaxElapsed == 1
\* a failure may be raised at the entry of minimax call number 0..MaxFailAt
MaxFailAt == 2
\* largest number of moves the Chessnut engine rejects
MaxRejected == 1

(* ------------------------- program constants --------------------------- *)
\* the checkmate sentinel
MATE == 20000
\* float('inf'): larger than every score the evaluator can return
INF == 1000000
\* time_limit = 0.1 s, in tenths of a second
time_limit == 1
\* depth <= 4
max_depth == 4
\* the value of a pawn, the unit of the material sums drawn below
PAWN == 100

None == <<>>
Squares == 0 .. (NumSq - 1)
Colors == {"w", "b"}
Other(c) == IF c = "w" THEN "b" ELSE "w"
Max(a, b) == IF a >= b THEN a ELSE b
Min(a, b) == IF a <= b THEN a ELSE b

(* --------------------------- rules engine ------------------------------ *)
\* A square's attributes: n legal moves, chk = the side to move is in check
\* (with n = 0: checkmate, else stalemate), draw = the game is over by a draw
\* rule although legal moves are left (insufficient material, repetition,
\* move count), material = White's material sum minus Black's (with the
\* positional terms of the Chessnut variant).
NodeKinds ==
  {k \in [n : 0 .. MaxMoves, chk : BOOLEAN, draw : BOOLEAN] :
     (k.chk => k.n = 0) /\ (k.draw => k.n > 0)}
Materials == {0 - PAWN, PAWN}
Rules == [Squares -> [kind : NodeKinds, material : Materials]]

\* the square the i-th move of square sq leads to
Target(sq, i) == (sq + 2 * i - 1) % NumSq
\* moves of one square with the same target differ in their promotion piece
Promo(sq, i) == Cardinality({j \in 1 .. (i - 1) : Target(sq, j) = Target(sq, i)})
\* a Move object: <<from_square, to_square, promotion>>
MoveOf(sq, i) == <<sq, Target(sq, i), Promo(sq, i)>>
\* Move.uci(): the promotion suffix is written only for a promotion
uci(m) == IF m[3] = 0 THEN <<m[1], m[2]>> ELSE m

\* chess.Board(fen)
Board(f) == [sq |-> f.sq, turn |-> f.turn, move_stack |-> <<>>]
\* board.legal_moves, in the engine's order
legal_moves(b) == [i \in 1 .. rules[b.sq].kind.n |-> MoveOf(b.sq, i)]
is_checkmate(b) == rules[b.sq].kind.n = 0 /\ rules[b.sq].kind.chk
\* checkmate, stalemate or a draw by rule
is_game_over(b) == rules[b.sq].kind.n = 0 \/ rules[b.sq].kind.draw
\* board.push(move): the move and the square it left go on the stack
push(b, m) ==
  [sq |-> m[2], turn |-> Other(b.turn),
   move_stack |-> Append(b.move_stack, [move |-> m, from |-> b.sq])]
\* board.pop(): the last move is taken back
pop(b) ==
  LET last == b.move_stack[Len(b.move_stack)]
  IN [sq |-> last.from, turn |-> Other(b.turn),
      move_stack |-> SubSeq(b.move_stack, 1, Len(b.move_stack) - 1)]

(* --------------------------- main.py: evaluator ------------------------ *)
evaluate_position(b) ==
  IF is_checkmate(b)
  THEN (IF b.turn = "w" THEN 0 - MATE ELSE MATE)
  ELSE rules[b.sq].material
       + Len(legal_moves(b)) * (IF b.turn = "w" THEN 1 ELSE -1)

(* --------------------------- main.py: search --------------------------- *)
\* The search runs as a function of its arguments and a thread record t:
\* t.n counts the minimax calls entered so far, t.log is the list of the
\* calls that have returned.  A failure is raised at the entry of call
\* number f (f = -1: no failure).
Frame(b, d, alpha, beta, maximizing) ==
  [board |-> b, depth |-> d, alpha |-> alpha, beta |-> beta,
   maximizing |-> maximizing]

Returned(c, score, move, out, iters, t) ==
  [st |-> "ok", score |-> score, move |-> move, board |-> out,
   t |-> [n |-> t.n,
          log |-> Append(t.log,
                    [call |-> c, score |-> score, move |-> move,
                     out |-> out, iters |-> iters])]]

Raised(b, t) ==
  [st |-> "raised", score |-> 0, move |-> None, board |-> b, t |-> t]

\* a variation of MainStep: a later move of equal score replaces the best
MainStepLastBest(s, maximizing, move, eval_score) ==
  IF maximizing
  THEN [s EXCEPT !.best_eval = IF eval_score >= s.best_eval THEN eval_score ELSE @,
                 !.best_move = IF eval_score >= s.best_eval THEN move ELSE @,
                 !.alpha = Max(s.alpha, eval_score)]
  ELSE [s EXCEPT !.best_eval = IF eval_score <= s.best_eval THEN eval_score ELSE @,
                 !.best_move = IF eval_score <= s.best_eval THEN move ELSE @,
                 !.beta = Min(s.beta, eval_score)]

\* lines 93-96 and 107-110: the running best and the window after a child
MainStep(s, maximizing, move, eval_score) ==
  IF maximizing
  THEN [s EXCEPT !.best_eval = IF eval_score > s.best_eval THEN eval_score ELSE @,
                 !.best_move = IF eval_score > s.best_eval THEN move ELSE @,
                 !.alpha = Max(s.alpha, eval_score)]
  ELSE [s EXCEPT !.best_eval = IF eval_score < s.best_eval THEN eval_score ELSE @,
                 !.best_move = IF eval_score < s.best_eval THEN move ELSE @,
                 !.beta = Min(s.beta, eval_score)]

\* lines 97 and 111
MainCutOff(s) == s.beta <= s.alpha

\* a variation of MainUndo: the move is not taken back
MainUndoMissing(b) == b

\* line 91 / 105: the board after the child call has returned
MainUndo(b) == pop(b)

\* one iteration of a call's loop as the log keeps it: the move, whether
\* it was applied, the child's score and the loop's state after it
Iter(move, ok, eval_score, s) ==
  [move |-> move, ok |-> ok, eval |-> eval_score, alpha |-> s.alpha,
   beta |-> s.beta, best_eval |-> s.best_eval, best_move |-> s.best_move]

RECURSIVE MainMinimax(_, _, _, _, _, _, _)
RECURSIVE MainLoop(_, _, _, _, _, _)

\* the for loop of one call: c the call's frame, s the loop's state, b the
\* board as the loop sees it, i the index of the next move
MainLoop(c, s, b, i, t, f) ==
  LET moves == legal_moves(b)
  IN IF i > Len(moves)
     THEN Returned(c, s.best_eval, s.best_move, b, s.iters, t)
     ELSE LET move == moves[i]
              r == MainMinimax(push(b, move), c.depth - 1, s.alpha, s.beta,
                               ~c.maximizing, t, f)
          IN IF r.st = "raised"
             THEN r
             ELSE LET b2 == MainUndo(r.board)
                      s1 == MainStep(s, c.maximizing, move, r.score)
                      s2 == [s1 EXCEPT !.iters =
                               Append(@, Iter(move, TRUE, r.score, s1))]
                  IN IF MainCutOff(s2)
                     THEN Returned(c, s2.best_eval, s2.best_move, b2, s2.iters, r.t)
                     ELSE MainLoop(c, s2, b2, i + 1, r.t, f)

MainMinimax(b, d, alpha, beta, maximizing, t, f) ==
  LET c == Frame(b, d, alpha, beta, maximizing)
      t1 == [t EXCEPT !.n = @ + 1]
  IN IF t.n = f
     THEN Raised(b, t1)
     ELSE IF d = 0 \/ is_game_over(b)
          THEN Returned(c, evaluate_position(b), None, b, <<>>, t1)
          ELSE MainLoop(c,
                        [alpha |-> alpha, beta |-> beta,
                         best_eval |-> IF maximizing THEN 0 - INF ELSE INF,
                         best_move |-> None, iters |-> <<>>],
                        b, 1, t1, f)

\* lines 115-116
MainGetBestMove(b, d, f) ==
  MainMinimax(b, d, 0 - INF, INF, TRUE, [n |-> 0, log |-> <<>>], f)


(* ------------------- chessnut_submission.py: engine -------------------- *)
\* Game(fen): a new game whose history starts at the given position
Game(f) == [sq |-> f.sq, turn |-> f.turn, move_history |-> <<>>]
\* game.get_fen(): the position without the history
get_fen(g) == [sq |-> g.sq, turn |-> g.turn]
\* game.get_moves(): the legal moves as coordinate strings
get_moves(g) == [i \in 1 .. rules[g.sq].kind.n |-> uci(MoveOf(g.sq, i))]
\* new_game.apply_move(move) raises InvalidMove for a rejected move
InvalidMove(g, move) == move \in reject
apply_move(g, move) ==
  [sq |-> move[2], turn |-> Other(g.turn),
   move_history |-> Append(g.move_history, move)]

(* ------------------ chessnut_submission.py: evaluator ------------------ *)
\* material, piece-square and centre terms are one sum of the position;
\* the mobility term is the number of legal moves of the side to move
NutEvaluate(g) ==
  rules[g.sq].material
  + (IF g.turn = "w" THEN Len(get_moves(g)) ELSE 0 - Len(get_moves(g)))

(* -------------------- chessnut_submission.py: search ------------------- *)
\* lines 109-112 and 126-129
NutStep(s, maximizing, move, eval_score) ==
  IF maximizing
  THEN [s EXCEPT !.best_eval = IF eval_score > s.best_eval THEN eval_score ELSE @,
                 !.best_move = IF eval_score > s.best_eval THEN move ELSE @,
                 !.alpha = Max(s.alpha, eval_score)]
  ELSE [s EXCEPT !.best_eval = IF eval_score < s.best_eval THEN eval_score ELSE @,
                 !.best_move = IF eval_score < s.best_eval THEN move ELSE @,
                 !.beta = Min(s.beta, eval_score)]

\* lines 113 and 130
NutCutOff(s) == s.beta <= s.alpha

\* a variation of NutOnInvalidMove: the rejected move is kept as the best
NutOnInvalidMoveKeepsIt(s, move) ==
  LET s1 == [s EXCEPT !.best_move = move]
  IN [s1 EXCEPT !.iters = Append(@, Iter(move, FALSE, 0, s1))]

\* lines 115-116 and 132-133: the loop's state after an InvalidMove
NutOnInvalidMove(s, move) ==
  [s EXCEPT !.iters = Append(@, Iter(move, FALSE, 0, s))]

\* line 98: the score of a position without legal moves
NutNoMoves(maximizing) == IF maximizing THEN 0 - MATE ELSE MATE

\* line 100: the best move before the loop
NutFirstBest(moves) == moves[1]

RECURSIVE NutMinimax(_, _, _, _, _, _, _)
RECURSIVE NutLoop(_, _, _, _, _, _)

NutLoop(c, s, moves, i, t, f) ==
  IF i > Len(moves)
  THEN Returned(c, s.best_eval, s.best_move, c.board, s.iters, t)
  ELSE LET move == moves[i]
           new_game == Game(get_fen(c.board))
       IN IF InvalidMove(new_game, move)
          THEN NutLoop(c, NutOnInvalidMove(s, move), moves, i + 1, t, f)
          ELSE LET r == NutMinimax(apply_move(new_game, move), c.depth - 1,
                                   s.alpha, s.beta, ~c.maximizing, t, f)
               IN IF r.st = "raised"
                  THEN [r EXCEPT !.board = c.board]
                  ELSE LET s1 == NutStep(s, c.maximizing, move, r.score)
                           s2 == [s1 EXCEPT !.iters =
                                    Append(@, Iter(move, TRUE, r.score, s1))]
                       IN IF NutCutOff(s2)
                          THEN Returned(c, s2.best_eval, s2.best_move, c.board,
                                        s2.iters, r.t)
                          ELSE NutLoop(c, s2, moves, i + 1, r.t, f)

NutMinimax(g, d, alpha, beta, maximizing, t, f) ==
  LET c == Frame(g, d, alpha, beta, maximizing)
      t1 == [t EXCEPT !.n = @ + 1]
      moves == get_moves(g)
  IN IF t.n = f
     THEN Raised(g, t1)
     ELSE IF d = 0
          THEN Returned(c, NutEvaluate(g), None, g, <<>>, t1)
          ELSE IF Len(moves) = 0
               THEN Returned(c, NutNoMoves(maximizing), None, g, <<>>, t1)
               ELSE NutLoop(c,
                            [alpha |-> alpha, beta |-> beta,
                             best_eval |-> IF maximizing THEN 0 - INF ELSE INF,
                             best_move |-> NutFirstBest(moves), iters |-> <<>>],
                            moves, 1, t1, f)

\* lines 136-137
NutGetBestMove(g, d, f) ==
  NutMinimax(g, d, 0 - INF, INF, TRUE, [n |-> 0, log |-> <<>>], f)

(* ------------------ get_best_move applied to drawn inputs -------------- *)
\* every move of the game graph, as the Chessnut engine writes it
AllMoves == {uci(MoveOf(sq, i)) : sq \in Squares, i \in 1 .. MaxMoves}
\* the sets of moves the Chessnut engine may reject (python-chess rejects none)
Rejects == {R \in SUBSET AllMoves : Cardinality(R) <= MaxRejected}
\* Chessnut has no draw-rule query: its positions carry no draw attribute
NoDraw(r) == \A sq \in Squares : ~r[sq].kind.draw
NoCheck(r) == \A sq \in Squares : ~r[sq].kind.chk

\* obs['fen'] and the engine behind it; RS the set the rules are drawn from
Inputs(RS) ==
  /\ variant \in {"main", "chessnut"}
  /\ rules \in (IF variant = "main" THEN RS ELSE {r \in RS : NoDraw(r)})
  /\ fen \in [sq : {0}, turn : Colors]
  /\ reject \in (IF variant = "main" THEN {{}} ELSE Rejects)
  /\ board = (IF variant = "main" THEN Board(fen) ELSE Game(fen))

NoTrace == [st |-> "none"]
NoOutcome == [st |-> "none", move |-> None]

\* get_best_move is applied to the position of a game that is going on
Ongoing(r) == r[0].kind.n > 0 /\ ~r[0].kind.draw

InitSearch ==
  /\ Inputs({r \in Rules : Ongoing(r)})
  /\ depth = 0
  /\ best_move = None
  /\ elapsed = 0
  /\ pc = "call"
  /\ outcome = NoOutcome
  /\ trace = NoTrace
  /\ hist = <<>>

MainSearch ==
  /\ pc = "call"
  /\ variant = "main"
  /\ \E d \in 1 .. MaxSearchDepth :
       LET r == MainGetBestMove(board, d, -1)
       IN /\ depth' = d
          /\ trace' = r
          /\ board' = r.board
          /\ best_move' = r.move
  /\ pc' = "returned"
  /\ UNCHANGED <<variant, rules, fen, reject, elapsed, outcome, hist>>

NutSearch ==
  /\ pc = "call"
  /\ variant = "chessnut"
  /\ \E d \in 1 .. MaxSearchDepth :
       LET r == NutGetBestMove(board, d, -1)
       IN /\ depth' = d
          /\ trace' = r
          /\ board' = r.board
          /\ best_move' = r.move
  /\ pc' = "returned"
  /\ UNCHANGED <<variant, rules, fen, reject, elapsed, outcome, hist>>

NextSearch == MainSearch \/ NutSearch

SpecSearch == InitSearch /\ [][NextSearch]_vars

(* ------------------------------ agent() -------------------------------- *)
\* The loop of agent() is the same in both variants (main.py 134-146,
\* chessnut_submission.py 155-167).  elapsed is time.time() - start_time in
\* whole tenths of a second; the clock advances while a search runs and
\* between the statements of the loop.
GetBestMove(b, d, f) ==
  IF variant = "main" THEN MainGetBestMove(b, d, f) ELSE NutGetBestMove(b, d, f)

\* the while condition
LoopCond == elapsed < time_limit /\ depth <= max_depth

\* a variation of OnCompleted: the first depth's move is kept
OnCompletedKeepFirst(best, move) == IF best = None THEN move ELSE best

\* if move: best_move = move
OnCompleted(best, move) == IF move # None THEN move ELSE best

\* a variation of OnException: the failed depth clears the best move
OnExceptionClears(best, d) == [pc |-> "return", best_move |-> None, depth |-> d]

\* except Exception: break -- the loop's state after a failed depth
OnException(best, d) == [pc |-> "return", best_move |-> best, depth |-> d]

\* the return statement; list(...)[0] of an empty list raises IndexError
MainReturn(best, b) ==
  IF best # None
  THEN [st |-> "returned", move |-> uci(best)]
  ELSE IF Len(legal_moves(b)) > 0
       THEN [st |-> "returned", move |-> uci(legal_moves(b)[1])]
       ELSE [st |-> "raised", move |-> None]

NutReturn(best, g) ==
  IF best # None
  THEN [st |-> "returned", move |-> best]
  ELSE IF Len(get_moves(g)) > 0
       THEN [st |-> "returned", move |-> get_moves(g)[1]]
       ELSE [st |-> "returned", move |-> None]

\* the loop does not depend on how a terminal position is scored, nor on
\* the moves the engine rejects: the rules are drawn without check flags
\* and the Chessnut engine rejects nothing
Init ==
  /\ Inputs({r \in Rules : NoCheck(r)})
  /\ reject = {}
  /\ depth = 1
  /\ best_move = None
  /\ elapsed = 0
  /\ pc = "loop"
  /\ outcome = NoOutcome
  /\ trace = NoTrace
  /\ hist = <<>>

Tick ==
  /\ pc = "loop"
  /\ elapsed < MaxElapsed
  /\ elapsed' = elapsed + 1
  /\ UNCHANGED <<variant, rules, fen, reject, board, depth, best_move, pc,
                 outcome, trace, hist>>

DepthCompletes ==
  /\ pc = "loop"
  /\ LoopCond
  /\ LET r == GetBestMove(board, depth, -1)
     IN /\ best_move' = OnCompleted(best_move, r.move)
        /\ board' = r.board
        /\ \E dt \in 0 .. (MaxElapsed - elapsed) :
             /\ elapsed' = elapsed + dt
             /\ hist' = Append(hist, [depth |-> depth, st |-> "ok",
                                      move |-> r.move, started |-> elapsed,
                                      finished |-> elapsed + dt])
  /\ depth' = depth + 1
  /\ pc' = "loop"
  /\ UNCHANGED <<variant, rules, fen, reject, outcome, trace>>

DepthRaises ==
  /\ pc = "loop"
  /\ LoopCond
  /\ \E f \in 0 .. MaxFailAt :
       LET r == GetBestMove(board, depth, f)
           c == OnException(best_move, depth)
       IN /\ r.st = "raised"
          /\ board' = r.board
          /\ pc' = c.pc
          /\ best_move' = c.best_move
          /\ depth' = c.depth
  /\ \E dt \in 0 .. (MaxElapsed - elapsed) :
       /\ elapsed' = elapsed + dt
       /\ hist' = Append(hist, [depth |-> depth, st |-> "raised",
                                move |-> None, started |-> elapsed,
                                finished |-> elapsed + dt])
  /\ UNCHANGED <<variant, rules, fen, reject, outcome, trace>>

LoopEnds ==
  /\ pc = "loop"
  /\ ~LoopCond
  /\ pc' = "return"
  /\ UNCHANGED <<variant, rules, fen, reject, board, depth, best_move, elapsed,
                 outcome, trace, hist>>

Return ==
  /\ pc = "return"
  /\ outcome' = (IF variant = "main" THEN MainReturn(best_move, board)
                 ELSE NutReturn(best_move, board))
  /\ pc' = "done"
  /\ UNCHANGED <<variant, rules, fen, reject, board, depth, best_move, elapsed,
                 trace, hist>>

Next == Tick \/ DepthCompletes \/ DepthRaises \/ LoopEnds \/ Return

Spec == Init /\ [][Next]_vars

(* ======================= properties of the search ====================== *)
\* the search the trace belongs to
Searched == pc = "returned"
Log == trace.t.log
\* the root call returns last
RootCall == Log[Len(Log)]
RootBoard == IF variant = "main" THEN Board(fen) ELSE Game(fen)
NoMoves(b) == rules[b.sq].kind.n = 0
Checkmate(b) == rules[b.sq].kind.n = 0 /\ rules[b.sq].kind.chk
\* the moves of a position as the variant's engine lists them
MovesOf(b) == IF variant = "main" THEN legal_moves(b) ELSE get_moves(b)
\* the successfully applied moves of a logged call
Scored(e) == {e.iters[i].move : i \in {j \in 1 .. Len(e.iters) : e.iters[j].ok}}

\* Exhaustive minimax without a window, for reference: every move is
\* searched, the first move with the best score is kept.  Leaves, terminal
\* positions and rejected moves are treated as the variant treats them.
RECURSIVE Plain(_, _, _)
RECURSIVE PlainLoop(_, _, _, _, _, _)

PlainChild(b, move) ==
  IF variant = "main" THEN push(b, move) ELSE apply_move(Game(get_fen(b)), move)

PlainLoop(b, d, maximizing, i, best_eval, best) ==
  LET moves == MovesOf(b)
  IN IF i > Len(moves)
     THEN <<best_eval, best>>
     ELSE IF variant = "chessnut" /\ moves[i] \in reject
          THEN PlainLoop(b, d, maximizing, i + 1, best_eval, best)
          ELSE LET v == Plain(PlainChild(b, moves[i]), d - 1, ~maximizing)[1]
                   better == IF maximizing THEN v > best_eval ELSE v < best_eval
               IN PlainLoop(b, d, maximizing, i + 1,
                            IF better THEN v ELSE best_eval,
                            IF better THEN moves[i] ELSE best)

Plain(b, d, maximizing) ==
  IF variant = "main"
  THEN IF d = 0 \/ is_game_over(b)
       THEN <<evaluate_position(b), None>>
       ELSE PlainLoop(b, d, maximizing, 1,
                      IF maximizing THEN 0 - INF ELSE INF, None)
  ELSE IF d = 0
       THEN <<NutEvaluate(b), None>>
       ELSE IF NoMoves(b)
            THEN <<IF maximizing THEN 0 - MATE ELSE MATE, None>>
            ELSE PlainLoop(b, d, maximizing, 1,
                           IF maximizing THEN 0 - INF ELSE INF, MovesOf(b)[1])

\* C1: at the root call the maximizing flag says whether the side to move is
\* White, the side the evaluator scores for, and the move chosen is the
\* minimax-optimal move of the side to move.
C1_RootFlagFollowsSideToMove ==
  Searched =>
    /\ RootCall.call.maximizing = (fen.turn = "w")
    /\ trace.move = Plain(RootBoard, depth, fen.turn = "w")[2]

\* C2: the alpha-beta search called with the full window returns the score
\* and the move of the exhaustive minimax of the same depth, move order and
\* first-seen tie-break.
C2_AlphaBetaEqualsMinimax ==
  Searched => <<trace.score, trace.move>> = Plain(RootBoard, depth, TRUE)

\* a search that pruned: some call left its loop before its last move
Pruned(e) == Len(e.iters) > 0 /\ Len(e.iters) < Len(MovesOf(e.call.board))
C2_Witness ==
  /\ Searched
  /\ depth >= 3
  /\ \E i \in 1 .. Len(Log) : Pruned(Log[i])
  /\ trace.move # None
  /\ trace.move # MovesOf(RootBoard)[1]

\* C5: with a mate in one for the side to move, a search of depth >= 2
\* returns a move that delivers checkmate.
Mates(b, move) == Checkmate([sq |-> move[2], turn |-> Other(b.turn)])
HasMateInOne(b) == \E i \in 1 .. Len(MovesOf(b)) : Mates(b, MovesOf(b)[i])
C5_MateInOneIsPlayed ==
  (Searched /\ depth >= 2 /\ HasMateInOne(RootBoard))
    => (trace.move # None /\ Mates(RootBoard, trace.move))

\* C7: a move the engine rejects with InvalidMove is skipped: alpha, beta
\* and the running best stay as they were, the next sibling is examined,
\* and the call and the whole search return.
Before(e, i) ==
  IF i = 1
  THEN [alpha |-> e.call.alpha, beta |-> e.call.beta,
        best_eval |-> IF e.call.maximizing THEN 0 - INF ELSE INF,
        best_move |-> MovesOf(e.call.board)[1]]
  ELSE [alpha |-> e.iters[i - 1].alpha, beta |-> e.iters[i - 1].beta,
        best_eval |-> e.iters[i - 1].best_eval,
        best_move |-> e.iters[i - 1].best_move]
After(e, i) ==
  [alpha |-> e.iters[i].alpha, beta |-> e.iters[i].beta,
   best_eval |-> e.iters[i].best_eval, best_move |-> e.iters[i].best_move]
C7_RejectedMoveIsSkipped ==
  (Searched /\ variant = "chessnut") =>
    /\ trace.st = "ok"
    /\ RootCall.call.board = RootBoard
    /\ \A k \in 1 .. Len(Log) :
         LET e == Log[k]
         IN \A i \in 1 .. Len(e.iters) :
              ~e.iters[i].ok =>
                /\ e.iters[i].move \in reject
                /\ After(e, i) = Before(e, i)
                /\ (i < Len(MovesOf(e.call.board)) =>
                      /\ Len(e.iters) > i
                      /\ e.iters[i + 1].move = MovesOf(e.call.board)[i + 1])

C7_Witness ==
  /\ Searched
  /\ variant = "chessnut"
  /\ \E k \in 1 .. Len(Log) :
       LET e == Log[k]
       IN /\ Len(e.iters) = 2
          /\ ~e.iters[1].ok
          /\ e.iters[2].ok
          /\ e.call.depth < depth
          /\ e.move = e.iters[2].move

\* C8: every call of the search returns with the position it was entered
\* with, cut-off or not, and get_best_move leaves the root position as it
\* was given.
C8_PositionRestored ==
  Searched =>
    /\ board = RootBoard
    /\ \A k \in 1 .. Len(Log) : Log[k].out = Log[k].call.board

C8_Witness ==
  /\ Searched
  /\ variant = "main"
  /\ depth >= 3
  /\ \E k \in 1 .. Len(Log) :
       Pruned(Log[k]) /\ Len(Log[k].call.board.move_stack) > 0

\* C9: a position without legal moves is not searched further and yields no
\* move, at every remaining depth; a checkmate scores -20000 when White is
\* mated and +20000 when Black is.
C9_TerminalIsScoredAsTerminal ==
  Searched =>
    \A k \in 1 .. Len(Log) :
      LET e == Log[k]
      IN NoMoves(e.call.board) =>
           /\ e.iters = <<>>
           /\ e.move = None
           /\ (Checkmate(e.call.board) =>
                 e.score = IF e.call.board.turn = "w" THEN 0 - MATE ELSE MATE)

\* C10: in the Chessnut variant the move a call returns was applied
\* successfully and scored at that call.
C10_ReturnedMoveWasScored ==
  (Searched /\ variant = "chessnut") =>
    \A k \in 1 .. Len(Log) :
      Log[k].move # None => Log[k].move \in Scored(Log[k])

(* ======================== properties of agent() ======================== *)
RootHasMove == rules[fen.sq].kind.n > 0
RootMoves == {uci(MoveOf(fen.sq, i)) : i \in 1 .. rules[fen.sq].kind.n}
\* the depths that completed, in order
Completed == SelectSeq(hist, LAMBDA h : h.st = "ok")
\* the last element of a sequence of history entries that satisfies a test
RECURSIVE LastMove(_, _)
LastMove(hs, finishedBefore) ==
  IF hs = <<>>
  THEN None
  ELSE LET h == hs[Len(hs)]
       IN IF h.st = "ok" /\ h.move # None /\ h.finished < finishedBefore
          THEN h.move
          ELSE LastMove(SubSeq(hs, 1, Len(hs) - 1), finishedBefore)

\* C3: with a legal move in the given position, agent() returns a legal move
\* of that position and raises nothing, on every path.
C3_AgentReturnsLegalMove ==
  (pc = "done" /\ RootHasMove) =>
    (outcome.st = "returned" /\ outcome.move \in RootMoves)

\* C4 as stated: after the loop best_move is the move of the deepest depth
\* that completed before the deadline; a depth that finished after the
\* deadline is discarded.
C4_LateDepthDiscarded ==
  pc \in {"return", "done"} => best_move = LastMove(hist, time_limit)

\* C4 as amended: after the loop best_move is the move of the deepest depth
\* that was started before the deadline and completed, whether it finished
\* before the deadline or after it.
C4_DeepestStartedInTime ==
  /\ \A i \in 1 .. Len(hist) : hist[i].started < time_limit
  /\ \A i \in 1 .. Len(hist) : hist[i].depth = i
  /\ pc \in {"return", "done"} => best_move = LastMove(hist, MaxElapsed + 1)

C4_Witness ==
  /\ pc = "done"
  /\ Len(hist) = 2
  /\ hist[1].st = "ok" /\ hist[1].finished < time_limit
  /\ hist[2].st = "ok" /\ hist[2].finished >= time_limit
  /\ hist[1].move # hist[2].move
  /\ best_move = hist[2].move

\* C6: a depth that raises ends the loop, and best_move stays the move of
\* the last depth that completed.
C6_FailedDepthKeepsBest ==
  \A i \in 1 .. Len(hist) :
    hist[i].st = "raised" =>
      /\ i = Len(hist)
      /\ pc \in {"return", "done"}
      /\ depth = i
      /\ best_move = (IF i > 1 THEN hist[i - 1].move ELSE None)

C6_Witness ==
  /\ pc = "done"
  /\ Len(hist) = 3
  /\ hist[3].st = "raised"
  /\ hist[1].move # hist[2].move
  /\ best_move = hist[2].move

====
